---- MODULE Spec2Model ----
(***************************************************************************)
(* checkfallbacks: the worker pool of testAllFallbacks, the per-record     *)
(* probe of testFallbackServer / ping / verifyUpstream / doTest, and the   *)
(* aggregator loop of main, as one state machine.                          *)
(*                                                                         *)
(* Goroutines are interleaved at the statements where they touch shared    *)
(* objects: channel operations, the WaitGroup, the *fullOutput a check     *)
(* goroutine shares with its worker, and the worker's loop variable fb     *)
(* that the check goroutine reads through a pointer.                       *)
(***************************************************************************)
EXTENDS Integers, Sequences, FiniteSets, TLC

\* ------------------------------------------------------------------ bounds
MaxRecords == 2
MaxConns   == 2
MaxChecks  == 2
\* the size of one run: workers times checks per record times records
MaxWork    == 4

\* ------------------------------------------------------- program constants
StatusOK == 200
PingSize == 1024
PreconnectForTest == 1

VARIABLES
    flags,        \* the parsed command line: numConns, checks, verify, verbose
    env,          \* what the process finds: the global config and the input file
    fallbacks,    \* what loadFallbacks returned, flattened in file order
    mainPc,       \* main: "boot", "range", "done", "fatal"
    exitStatus,   \* process exit status, -1 while the process runs
    fbChan,       \* the buffered, closed work queue
    dispPc,       \* the dispatcher goroutine: "idle", "spawn", "wait", "done"
    spawned,      \* the dispatcher's loop counter i
    wg,           \* workersWg's counter
    closed,       \* whether the results channel (output) is closed
    panicked,     \* a goroutine panicked (send on the closed results channel)
    wpc,          \* worker w: "none", "recv", "test", "dialer", "loop", "select", "publish", "done"
    fb,           \* worker w's loop variable fb (check goroutines hold &fb)
    proto,        \* worker w's local proto inside testFallbackServer
    chk,          \* worker w's loop counter i inside testFallbackServer
    hist,         \* history: how each check of worker w's current record ended
    outs,         \* the *fullOutput objects, one per record once created
    gos,          \* the live check goroutines started by doTest
    received,     \* the *fullOutput pointers main has received, in arrival order
    stdout,       \* the lines main has printed, in order
    testedCount   \* the atomic counter of testAllFallbacks

vars == <<flags, env, fallbacks, mainPc, exitStatus, fbChan, dispPc, spawned, wg,
          closed, panicked, wpc, fb, proto, chk, hist, outs, gos, received,
          stdout, testedCount>>

Workers == 1..MaxConns

\* ------------------------------------------------------------ data model
\* error values: fmt.Errorf("%v: <kind>...", fb.Addr, ...); Nil is the nil error
Nil == [kind |-> "nil", addr |-> 0]
\* faulty variant: the error text does not name the record's address
ErrNoAddr(kind, addr) == [kind |-> kind, addr |-> 0]
Err(kind, addr) == [kind |-> kind, addr |-> addr]

\* chained.ChainedServerInfo, the fields the program reads or writes
Rec(addr, cert, pt, kcp, maxpre) ==
    [Addr |-> addr, Cert |-> cert, PluggableTransport |-> pt,
     KCPSettings |-> kcp, AuthToken |-> 10 + addr, MaxPreconnect |-> maxpre]
NoRec == [Addr |-> 0, Cert |-> "", PluggableTransport |-> "",
          KCPSettings |-> "nil", AuthToken |-> 0, MaxPreconnect |-> 0]

\* fullOutput; NoOut stands for an object not allocated yet
NewOutput(addr) == [addr |-> addr, err |-> Nil, info |-> <<>>]
NoOut == [addr |-> 0, err |-> Nil, info |-> <<>>]

\* what one request/response exchange of a check goroutine ends in:
\* do = c.Do returned a response, read = ioutil.ReadAll read the body
Response(status, len, marker, body) ==
    [do |-> TRUE, read |-> TRUE, status |-> status, len |-> len,
     marker |-> marker, body |-> body]
DoFailed   == [Response(0, 0, FALSE, "none") EXCEPT !.do = FALSE, !.read = FALSE]
ReadFailed == [Response(StatusOK, 0, TRUE, "none") EXCEPT !.read = FALSE]
NoRes      == [Response(0, 0, FALSE, "unset") EXCEPT !.do = FALSE, !.read = FALSE]

Statuses == {StatusOK, 404}
BodySizes == {0, PingSize - 1, PingSize, PingSize + 1}
\* bodies of the upstream config: a gzip stream of YAML, or broken at one layer
Bodies == {"gzyaml", "notgzip", "truncgzip", "gzbadyaml"}

PingResponses == {Response(s, n, FALSE, "raw") : s \in Statuses, n \in BodySizes}
UpstreamResponses ==
    {Response(StatusOK, PingSize, m, b) : m \in BOOLEAN, b \in Bodies}
        \cup {Response(404, PingSize, m, "gzyaml") : m \in BOOLEAN}

Exchanges(verify) ==
    {DoFailed, ReadFailed} \cup (IF verify THEN UpstreamResponses ELSE PingResponses)

\* ------------------------------------------------------------ loadFallbacks
\* what the process finds when it boots: whether the global config with the
\* trusted CAs can be fetched and parsed, the -fallbacks file name, whether
\* the file can be read and is JSON of the expected shape, and the groups of
\* records written in the file (a record's Cert is the JSON string literal
\* as written, escapes included)
Environment(groups) ==
    [fronted |-> TRUE, filename |-> "fallbacks.json", readable |-> TRUE,
     wellformed |-> TRUE, groups |-> groups]

\* the string a JSON string literal denotes, as json.Unmarshal decodes it:
\* backslash n is a newline, backslash followed by another character is
\* that character
RECURSIVE jsonString(_)
jsonString(lit) ==
    IF Len(lit) = 0 THEN ""
    ELSE IF Len(lit) >= 2 /\ SubSeq(lit, 1, 1) = "\\"
      THEN (IF SubSeq(lit, 2, 2) = "n" THEN "\n" ELSE SubSeq(lit, 2, 2))
             \o jsonString(SubSeq(lit, 3, Len(lit)))
      ELSE SubSeq(lit, 1, 1) \o jsonString(SubSeq(lit, 2, Len(lit)))

\* json.Unmarshal(fileBytes, &fallbacks)
Unmarshal(groups) ==
    [i \in 1..Len(groups) |->
        [j \in 1..Len(groups[i]) |->
            [groups[i][j] EXCEPT !.Cert = jsonString(@)]]]

\* strings.Replace(s, old, new, -1) for a one-character old
RECURSIVE Replace(_, _, _)
Replace(s, old, new) ==
    IF Len(s) = 0 THEN ""
    ELSE (IF SubSeq(s, 1, 1) = old THEN new ELSE SubSeq(s, 1, 1))
           \o Replace(SubSeq(s, 2, Len(s)), old, new)

\* faulty variant: the assignment reaches the element of the list
assignCertInPlace(elem, cert) == [elem EXCEPT !.Cert = cert]

\* fb.Cert = ... inside for _, fb := range fbs: fb is the range clause's
\* copy of the element, so the element of the list stays as it is
assignCert(elem, cert) == elem

\* loadFallbacks past its fatal exits: the list it returns
loadFallbacks(e) ==
    LET parsed == Unmarshal(e.groups)
    IN  [i \in 1..Len(parsed) |->
            [j \in 1..Len(parsed[i]) |->
                assignCert(parsed[i][j],
                           Replace(parsed[i][j].Cert, "\n", "\\n"))]]

\* the first fatal error of initFronted and loadFallbacks, "" for none
bootError(e) ==
    IF ~e.fronted THEN "Unable to get global config"
    ELSE IF e.filename = "" THEN "Please specify a fallbacks file"
    ELSE IF ~e.readable THEN "Unable to read fallbacks file"
    ELSE IF ~e.wellformed THEN "Unable to unmarshal json"
    ELSE ""

\* faulty variant: the process exits with status 0 whatever went wrong
fatalStatusZero(cause) == 0

\* os.Exit(2) for a missing file name, log.Fatalf (exit status 1) otherwise
fatalStatus(cause) == IF cause = "Please specify a fallbacks file" THEN 2 ELSE 1

\* the two loops of testAllFallbacks over the groups, in order
RECURSIVE Flat(_)
Flat(groups) == IF groups = <<>> THEN <<>> ELSE Head(groups) \o Flat(Tail(groups))

\* ------------------------------------------------------------- the inputs
Certs == {"", "cert"}
Transports == {"", "obfs4", "foo"}
KCPs == {"nil", "empty", "set"}
Preconnects == {0, PreconnectForTest}

\* files for the pool: n records, alternately plaintext and TLS servers
PoolFile(n) ==
    [k \in 1..n |-> IF k % 2 = 1 THEN Rec(k, "", "", "nil", 0)
                                 ELSE Rec(k, "cert", "", "empty", 0)]
PoolConfigs ==
    [numConns : 1..MaxConns, checks : 0..MaxChecks, verify : BOOLEAN,
     verbose : BOOLEAN]
PoolInputs ==
    {<<c, Environment(<<PoolFile(n)>>)>> :
        <<c, n>> \in {x \in PoolConfigs \X (0..MaxRecords) :
                         x[1].numConns * x[1].checks * x[2] <= MaxWork}}

\* one-record files of every shape, probed by one worker with one check
ShapeInputs ==
    {<<c, Environment(<< <<Rec(1, cert, pt, kcp, mp)>> >>)>> :
        c \in [numConns : {1}, checks : {1}, verify : BOOLEAN, verbose : {FALSE}],
        cert \in Certs, pt \in Transports, kcp \in KCPs, mp \in Preconnects}

\* files for loadFallbacks: up to MaxRecords records in zero, one or two
\* groups, their certificates written with and without newline escapes;
\* the records are only loaded, queued and published (no checks)
CertTexts == {"", "c", "c\\n", "\\nc\\n"}
LoadFiles ==
    UNION {[1..n -> CertTexts] : n \in 0..MaxRecords}
Written(certs) == [k \in 1..Len(certs) |-> Rec(k, certs[k], "", "nil", 0)]
Groupings(recs) ==
    {<<recs>>} \cup {<<SubSeq(recs, 1, cut), SubSeq(recs, cut + 1, Len(recs))>> :
                       cut \in 0..Len(recs)}
               \cup (IF recs = <<>> THEN {<<>>} ELSE {})
LoadInputs ==
    {<<[numConns |-> 1, checks |-> 0, verify |-> FALSE, verbose |-> FALSE],
       Environment(g)>> :
        g \in UNION {Groupings(Written(certs)) : certs \in LoadFiles}}

\* boots that end in a fatal error, one per cause
FatalEnvironments ==
    {[Environment(<<PoolFile(MaxRecords)>>) EXCEPT !.fronted = FALSE],
     [Environment(<<>>) EXCEPT !.filename = ""],
     [Environment(<<>>) EXCEPT !.readable = FALSE],
     [Environment(<<>>) EXCEPT !.wellformed = FALSE]}
FatalInputs ==
    {<<[numConns |-> n, checks |-> 1, verify |-> FALSE, verbose |-> FALSE], e>> :
        n \in 1..MaxConns, e \in FatalEnvironments}

Inputs == PoolInputs \cup ShapeInputs \cup LoadInputs \cup FatalInputs

Records == 1..Len(fallbacks)
Running == exitStatus = -1

\* the process after flag.Parse, before anything is loaded
InitWith(inputs) ==
    /\ \E in \in inputs : flags = in[1] /\ env = in[2]
    /\ fallbacks = <<>>
    /\ mainPc = "boot"
    /\ exitStatus = -1
    /\ fbChan = <<>>
    /\ dispPc = "idle"
    /\ spawned = 0
    /\ wg = 0
    /\ closed = FALSE
    /\ panicked = FALSE
    /\ wpc = [w \in Workers |-> "none"]
    /\ fb = [w \in Workers |-> NoRec]
    /\ proto = [w \in Workers |-> ""]
    /\ chk = [w \in Workers |-> 0]
    /\ hist = [w \in Workers |-> <<>>]
    /\ outs = <<>>
    /\ gos = {}
    /\ received = <<>>
    /\ stdout = <<>>
    /\ testedCount = 0

Init == InitWith(Inputs)

\* faulty variant: only the transports named in a switch are honoured
protoOfNamed(rec) ==
    LET p1 == IF rec.Cert # "" THEN "https" ELSE "http"
        p2 == IF rec.PluggableTransport \in {"obfs4", "lampshade"}
                THEN rec.PluggableTransport ELSE p1
    IN  IF rec.KCPSettings # "nil" /\ rec.KCPSettings # "empty" THEN "kcp" ELSE p2

\* ------------------------------------------------- testFallbackServer, pure
\* the protocol named in the dialer's name
protoOf(rec) ==
    LET p1 == IF rec.Cert # "" THEN "https" ELSE "http"
        p2 == IF rec.PluggableTransport # "" THEN rec.PluggableTransport ELSE p1
    IN  IF rec.KCPSettings # "nil" /\ rec.KCPSettings # "empty" THEN "kcp" ELSE p2

\* faulty variant: the record is left as it was handed over
tweakNone(rec) == rec

\* fb.MaxPreconnect = 1, written through the pointer the worker passed
tweak(rec) == [rec EXCEPT !.MaxPreconnect = PreconnectForTest]

\* faulty variant: the loop condition is off by one
moreChecksOffByOne(n) == n <= flags.checks

\* the loop condition i < *checks
moreChecks(n) == n < flags.checks
afterCheck(n) == IF moreChecks(n) THEN "loop" ELSE "publish"

\* faulty variant: the body only has to be long enough
pingVerifyAtLeast(addr, resp) ==
    IF resp.status # StatusOK THEN Err("bad status code", addr)
    ELSE IF resp.len < PingSize THEN Err("wrong body size", addr)
    ELSE Nil

\* ------------------------------------------------------ the check strategies
\* the verify closure of ping
pingVerify(addr, resp) ==
    IF resp.status # StatusOK THEN Err("bad status code", addr)
    ELSE IF resp.len # PingSize THEN Err("wrong body size", addr)
    ELSE Nil

\* faulty variant: a marker response header is required as well
upstreamVerifyMarker(addr, resp) ==
    IF resp.status # StatusOK THEN Err("bad status code", addr)
    ELSE IF ~resp.marker THEN Err("missing marker header", addr)
    ELSE IF resp.body = "notgzip" THEN Err("can't open gzip reader", addr)
    ELSE IF resp.body = "truncgzip" THEN Err("can't read config body", addr)
    ELSE IF resp.body = "gzbadyaml" THEN Err("can't parse config response", addr)
    ELSE Nil

\* the verify closure of verifyUpstream
upstreamVerify(addr, resp) ==
    IF resp.status # StatusOK THEN Err("bad status code", addr)
    ELSE IF resp.body = "notgzip" THEN Err("can't open gzip reader", addr)
    ELSE IF resp.body = "truncgzip" THEN Err("can't read config body", addr)
    ELSE IF resp.body = "gzbadyaml" THEN Err("can't parse config response", addr)
    ELSE Nil

\* what the check goroutine of doTest sends on errCh
doTestResult(addr, res) ==
    IF ~res.do THEN Err("ping failed", addr)
    ELSE IF ~res.read THEN Err("error reading response body", addr)
    ELSE IF flags.verify THEN upstreamVerify(addr, res)
    ELSE pingVerify(addr, res)

\* faulty variant: the timeout branch leaves the outcome's error alone
timeoutErrNone(addr) == Nil

\* the timeout branch of doTest's select
timeoutErr(addr) == Err("check timed out", addr)

\* ------------------------------------------------------------------ main
\* faulty variant: the diagnostics are printed before the status line
RenderDiagnosticsFirst(o) ==
    (IF flags.verbose /\ Len(o.info) > 0
       THEN [k \in 1..Len(o.info) |->
                [prefix |-> "[output]", addr |-> 0, err |-> Nil, msg |-> o.info[k]]]
       ELSE <<>>)
    \o <<IF o.err # Nil
          THEN [prefix |-> "[failed fallback check]", addr |-> 0, err |-> o.err, msg |-> ""]
          ELSE [prefix |-> "Fallback OK", addr |-> o.addr, err |-> Nil, msg |-> ""]>>

\* the lines main prints for one outcome
Render(o) ==
    <<IF o.err # Nil
        THEN [prefix |-> "[failed fallback check]", addr |-> 0, err |-> o.err, msg |-> ""]
        ELSE [prefix |-> "Fallback OK", addr |-> o.addr, err |-> Nil, msg |-> ""]>>
    \o (IF flags.verbose /\ Len(o.info) > 0
          THEN [k \in 1..Len(o.info) |->
                   [prefix |-> "[output]", addr |-> 0, err |-> Nil, msg |-> o.info[k]]]
          ELSE <<>>)

\* lines 68-71 without a fatal error: initFronted, loadFallbacks, and
\* testAllFallbacks up to its return (queue filled and closed, dispatcher
\* goroutine started, workersWg.Add(*numConns))
Start ==
    /\ mainPc = "boot"
    /\ bootError(env) = ""
    /\ mainPc' = "range"
    /\ fallbacks' = Flat(loadFallbacks(env))
    /\ fbChan' = fallbacks'
    /\ outs' = [r \in 1..Len(fallbacks') |-> NoOut]
    /\ dispPc' = "spawn"
    /\ wg' = flags.numConns
    /\ UNCHANGED <<flags, env, exitStatus, spawned, closed, panicked, wpc, fb,
                   proto, chk, hist, gos, received, stdout, testedCount>>

\* log.Fatalf in initFronted or loadFallbacks (status 1), or os.Exit(2) for
\* an empty file name
BootFatal ==
    /\ mainPc = "boot"
    /\ bootError(env) # ""
    /\ mainPc' = "fatal"
    /\ exitStatus' = fatalStatus(bootError(env))
    /\ UNCHANGED <<flags, env, fallbacks, fbChan, dispPc, spawned, wg, closed,
                   panicked, wpc, fb, proto, chk, hist, outs, gos, received, stdout,
                   testedCount>>

\* the range loop ends when the results channel is closed and drained
AggDone ==
    /\ Running
    /\ mainPc = "range"
    /\ closed
    /\ mainPc' = "done"
    /\ exitStatus' = 0
    /\ UNCHANGED <<flags, env, fallbacks, fbChan, dispPc, spawned, wg, closed,
                   panicked, wpc, fb, proto, chk, hist, outs, gos, received, stdout,
                   testedCount>>

\* ------------------------------------------------------------ dispatcher
\* one iteration of the spawning loop: go func(i int) {...}(i + 1)
Spawn ==
    /\ Running
    /\ dispPc = "spawn"
    /\ spawned < flags.numConns
    /\ spawned' = spawned + 1
    /\ wpc' = [wpc EXCEPT ![spawned + 1] = "recv"]
    /\ dispPc' = IF spawned + 1 < flags.numConns THEN "spawn" ELSE "wait"
    /\ UNCHANGED <<flags, env, fallbacks, mainPc, exitStatus, fbChan, wg, closed,
                   panicked, fb, proto, chk, hist, outs, gos, received, stdout,
                   testedCount>>

\* faulty variant: Wait returns while one worker is still running
WaitReturnsEarly(n) == n <= 1

\* workersWg.Wait() returns
WaitReturns(n) == n = 0

\* workersWg.Wait(); close(output)
CloseOutput ==
    /\ Running
    /\ dispPc = "wait"
    /\ WaitReturns(wg)
    /\ closed' = TRUE
    /\ dispPc' = "done"
    /\ UNCHANGED <<flags, env, fallbacks, mainPc, exitStatus, fbChan, spawned, wg,
                   panicked, wpc, fb, proto, chk, hist, outs, gos, received, stdout,
                   testedCount>>

\* ---------------------------------------------------------------- workers
\* the *fullOutput the worker's current call of testFallbackServer owns
OutOf(w) == fb[w].Addr

\* faulty variant: the receive leaves the record on the queue
RemainingKeep(q) == q

\* what is left on the work queue after a receive
Remaining(q) == Tail(q)

\* for fb := range fbChan: a record is received
Dequeue(w) ==
    /\ Running
    /\ wpc[w] = "recv"
    /\ fbChan # <<>>
    /\ fb' = [fb EXCEPT ![w] = Head(fbChan)]
    /\ fbChan' = Remaining(fbChan)
    /\ wpc' = [wpc EXCEPT ![w] = "test"]
    /\ UNCHANGED <<flags, env, fallbacks, mainPc, exitStatus, dispPc, spawned, wg,
                   closed, panicked, proto, chk, hist, outs, gos, received, stdout,
                   testedCount>>

\* faulty variant: the worker returns without calling Done
wgNotDone(n) == n

\* workersWg.Done()
wgDone(n) == n - 1

\* the range over the closed, empty queue ends; workersWg.Done()
WorkerDone(w) ==
    /\ Running
    /\ wpc[w] = "recv"
    /\ fbChan = <<>>
    /\ wg' = wgDone(wg)
    /\ wpc' = [wpc EXCEPT ![w] = "done"]
    /\ UNCHANGED <<flags, env, fallbacks, mainPc, exitStatus, fbChan, dispPc, spawned,
                   closed, panicked, fb, proto, chk, hist, outs, gos, received, stdout,
                   testedCount>>

\* testFallbackServer up to the call of client.ChainedDialer
TestBegin(w) ==
    /\ Running
    /\ wpc[w] = "test"
    /\ outs' = [outs EXCEPT ![OutOf(w)] = NewOutput(fb[w].Addr)]
    /\ proto' = [proto EXCEPT ![w] = protoOf(fb[w])]
    /\ fb' = [fb EXCEPT ![w] = tweak(fb[w])]
    /\ wpc' = [wpc EXCEPT ![w] = "dialer"]
    /\ UNCHANGED <<flags, env, fallbacks, mainPc, exitStatus, fbChan, dispPc, spawned,
                   wg, closed, panicked, chk, hist, gos, received, stdout, testedCount>>

\* faulty variant: on a dialer error the worker skips the send and takes the next record
dialerFailedSkip(w) == "recv"

\* the worker's next position when client.ChainedDialer returned an error
dialerFailed(w) == "publish"

\* client.ChainedDialer returns; on an error the outcome carries it and
\* testFallbackServer returns, otherwise the check loop starts with i = 0
BuildDialer(w) ==
    /\ Running
    /\ wpc[w] = "dialer"
    /\ \E ok \in BOOLEAN :
         IF ok
           THEN /\ wpc' = [wpc EXCEPT ![w] = afterCheck(0)]
                /\ outs' = outs
           ELSE /\ wpc' = [wpc EXCEPT ![w] = dialerFailed(w)]
                /\ outs' = [outs EXCEPT ![OutOf(w)].err =
                                Err("error building dialer", fb[w].Addr)]
    /\ chk' = [chk EXCEPT ![w] = 0]
    /\ hist' = [hist EXCEPT ![w] = <<>>]
    /\ proto' = [proto EXCEPT ![w] = ""]
    /\ UNCHANGED <<flags, env, fallbacks, mainPc, exitStatus, fbChan, dispPc, spawned,
                   wg, closed, panicked, fb, gos, received, stdout, testedCount>>

\* a check goroutine as doTest starts it: it holds the worker's &fb (w), the
\* *fullOutput (out) and runs check number n of the record
NewCheck(w) ==
    [w |-> w, out |-> OutOf(w), n |-> chk[w] + 1, pc |-> "start", token |-> 0,
     res |-> NoRes, err |-> Nil]

\* one iteration of the check loop up to the select of doTest: ping or
\* verifyUpstream builds the request and doTest starts the check goroutine.
\* http.NewRequest is called with a constant method and a constant, valid
\* URL and returns no error, so the err != nil branches are never taken
CheckStart(w) ==
    /\ Running
    /\ wpc[w] = "loop"
    /\ gos' = gos \cup {NewCheck(w)}
    /\ wpc' = [wpc EXCEPT ![w] = "select"]
    /\ UNCHANGED <<flags, env, fallbacks, mainPc, exitStatus, fbChan, dispPc, spawned,
                   wg, closed, panicked, fb, proto, chk, hist, outs, received, stdout,
                   testedCount>>

\* the check goroutine the worker's select is waiting for
Waited(w, g) == g.w = w /\ g.out = OutOf(w) /\ g.n = chk[w] + 1

\* faulty variant: output.err is assigned whatever was received, nil included
recvErrAssigned(old, err) == err

\* if err != nil { output.err = err }: the outcome's error after a receive
recvErr(old, err) == IF err # Nil THEN err ELSE old

\* case err := <-errCh: the goroutine's send and the worker's receive meet
CheckRecv(w) ==
    /\ Running
    /\ wpc[w] = "select"
    /\ \E g \in gos :
         /\ Waited(w, g)
         /\ g.pc = "send"
         /\ gos' = gos \ {g}
         /\ outs' = [outs EXCEPT ![OutOf(w)].err = recvErr(@, g.err)]
         /\ hist' = [hist EXCEPT ![w] =
                        Append(@, IF g.err # Nil THEN "failed" ELSE "ok")]
    /\ chk' = [chk EXCEPT ![w] = chk[w] + 1]
    /\ wpc' = [wpc EXCEPT ![w] = afterCheck(chk[w] + 1)]
    /\ UNCHANGED <<flags, env, fallbacks, mainPc, exitStatus, fbChan, dispPc, spawned,
                   wg, closed, panicked, fb, proto, received, stdout, testedCount>>

\* a check goroutine whose worker has left the select: nothing receives from
\* its errCh any more, so what it would send is never read and is not kept
Dropped(g) == [g EXCEPT !.res = NoRes, !.err = Nil]

\* case <-time.After(*timeout): the check goroutine is left running
Timeout(w) ==
    /\ Running
    /\ wpc[w] = "select"
    /\ gos' = {IF Waited(w, g) THEN Dropped(g) ELSE g : g \in gos}
    /\ outs' = [outs EXCEPT ![OutOf(w)].err = timeoutErr(fb[w].Addr)]
    /\ hist' = [hist EXCEPT ![w] = Append(@, "timeout")]
    /\ chk' = [chk EXCEPT ![w] = chk[w] + 1]
    /\ wpc' = [wpc EXCEPT ![w] = afterCheck(chk[w] + 1)]
    /\ UNCHANGED <<flags, env, fallbacks, mainPc, exitStatus, fbChan, dispPc, spawned,
                   wg, closed, panicked, fb, proto, received, stdout, testedCount>>

\* output <- testFallbackServer(&fb, i), received by main's range loop, which
\* prints the outcome; a send on the closed channel panics
Publish(w) ==
    /\ Running
    /\ wpc[w] = "publish"
    /\ mainPc = "range"
    /\ IF closed
         THEN /\ panicked' = TRUE
              /\ exitStatus' = 2
              /\ UNCHANGED <<wpc, received, stdout, testedCount>>
         ELSE /\ received' = Append(received, OutOf(w))
              /\ stdout' = stdout \o Render(outs[OutOf(w)])
              /\ testedCount' = testedCount + 1
              /\ wpc' = [wpc EXCEPT ![w] = "recv"]
              /\ UNCHANGED <<panicked, exitStatus>>
    /\ UNCHANGED <<flags, env, fallbacks, mainPc, fbChan, dispPc, spawned, wg, closed,
                   fb, proto, chk, hist, outs, gos>>

\* ------------------------------------------------------- check goroutines
\* faulty variant: the dumps are kept whether or not -verbose is given
dumpingAlways == TRUE

\* if *verbose: the request and the response are dumped to output.info
dumping == flags.verbose

\* lines 315-321: the headers, read through &fb, and the request dump
GoStart(g) ==
    /\ Running
    /\ g.pc = "start"
    /\ gos' = (gos \ {g}) \cup
                {[g EXCEPT !.pc = "do", !.token = fb[g.w].AuthToken]}
    /\ outs' = IF dumping
                 THEN [outs EXCEPT ![g.out].info = <<"request">>]
                 ELSE outs
    /\ UNCHANGED <<flags, env, fallbacks, mainPc, exitStatus, fbChan, dispPc, spawned,
                   wg, closed, panicked, wpc, fb, proto, chk, hist, received, stdout,
                   testedCount>>

\* lines 323-344: c.Do, the response dump, the body, and verify; the
\* goroutine then blocks in its send on errCh
GoDo(g) ==
    /\ Running
    /\ g.pc = "do"
    /\ \E res \in Exchanges(flags.verify) :
         /\ gos' = (gos \ {g}) \cup
                     {IF \E w \in Workers : wpc[w] = "select" /\ Waited(w, g)
                        THEN [g EXCEPT !.pc = "send", !.res = res,
                                       !.err = doTestResult(fb[g.w].Addr, res)]
                        ELSE [g EXCEPT !.pc = "send"]}
         /\ outs' = IF dumping /\ res.do
                      THEN [outs EXCEPT ![g.out].info = Append(@, "response")]
                      ELSE outs
    /\ UNCHANGED <<flags, env, fallbacks, mainPc, exitStatus, fbChan, dispPc, spawned,
                   wg, closed, panicked, wpc, fb, proto, chk, hist, received, stdout,
                   testedCount>>

Next ==
    \/ Start
    \/ BootFatal
    \/ AggDone
    \/ Spawn
    \/ CloseOutput
    \/ \E w \in Workers : Dequeue(w)
    \/ \E w \in Workers : WorkerDone(w)
    \/ \E w \in Workers : TestBegin(w)
    \/ \E w \in Workers : BuildDialer(w)
    \/ \E w \in Workers : CheckStart(w)
    \/ \E w \in Workers : CheckRecv(w)
    \/ \E w \in Workers : Timeout(w)
    \/ \E w \in Workers : Publish(w)
    \/ \E g \in gos : GoStart(g)
    \/ \E g \in gos : GoDo(g)

Spec == Init /\ [][Next]_vars

\* a step of main, the dispatcher or a worker, the timer included: every
\* step but the failure at boot and the steps of a request/response exchange
PoolStep ==
    \/ Start
    \/ AggDone
    \/ Spawn
    \/ CloseOutput
    \/ \E w \in Workers :
         \/ Dequeue(w)
         \/ WorkerDone(w)
         \/ TestBegin(w)
         \/ BuildDialer(w)
         \/ CheckStart(w)
         \/ CheckRecv(w)
         \/ Timeout(w)
         \/ Publish(w)

\* the scheduler does not stop while main, the dispatcher or a worker can
\* run or a timer is due, and client.ChainedDialer returns; a
\* request/response exchange (GoStart, GoDo) may hang for ever
Fairness == WF_vars(PoolStep)

\* termination is checked over the pool's inputs without -verbose: the dumps
\* are written to output.info only and decide no step
QuietInputs == {in \in PoolInputs : ~in[1].verbose}
FairInit == InitWith(QuietInputs \cup FatalInputs)

FairSpec == FairInit /\ [][Next]_vars /\ Fairness

\* ----------------------------------------------------------- properties
InTest == {"test", "dialer", "loop", "select", "publish"}
NumWorkers == 1..flags.numConns
Started == mainPc \in {"range", "done"}
ReceivedSet == {received[k] : k \in 1..Len(received)}
Count(seq, x) == Cardinality({k \in 1..Len(seq) : seq[k] = x})
QueuedAddrs == [k \in 1..Len(fbChan) |-> fbChan[k].Addr]
Holders(r) == {w \in Workers : wpc[w] \in InTest /\ OutOf(w) = r}

\* C1: every record is, at any moment after the start, in exactly one place
\* (on the queue, in the hands of one worker, or published once); a published
\* outcome carries the address of its record; and when the results channel
\* is closed every record has been published exactly once.
C1_ExactlyOnce ==
    Started =>
      /\ \A r \in Records :
           Count(QueuedAddrs, r) + Cardinality(Holders(r)) + Count(received, r) = 1
      /\ \A k \in 1..Len(received) :
           /\ received[k] \in Records
           /\ outs[received[k]].addr = fallbacks[received[k]].Addr
      /\ closed => /\ ReceivedSet = Records
                   /\ Len(received) = Len(fallbacks)

C1_Witness ==
    /\ closed
    /\ flags.numConns = 2
    /\ received = <<2, 1>>
    /\ outs[1].err # Nil
    /\ outs[2].err = Nil

\* C2: the results channel is closed only when each of the N workers has
\* seen the empty, closed queue and returned, and no send ever happens on
\* the closed channel.
C2_CloseAfterWorkers ==
    /\ ~panicked
    /\ closed => /\ fbChan = <<>>
                 /\ \A w \in NumWorkers : wpc[w] = "done"
                 /\ wg = 0

C2_Witness ==
    /\ closed
    /\ flags.numConns = 2
    /\ Len(received) = 2
    /\ \A w \in NumWorkers : wpc[w] = "done"

\* C3: once the pool is started it closes the results channel and main's
\* range loop ends, whatever the probes do; the loop never ends before the
\* channel is closed.
C3_Terminates ==
    /\ (mainPc = "range") ~> (mainPc = "done" /\ closed)
    /\ [](mainPc = "done" => closed)

C3_Witness ==
    /\ mainPc = "done"
    /\ closed
    /\ \E r \in Records : outs[r].err = timeoutErr(r)
    /\ \E r \in Records : outs[r].err = Nil

\* C4: after a start the only exit status is 0 and nothing panics; an error
\* an outcome carries is the error of its own record; and when main is done
\* every record, failed or not, has been published exactly once.
C4_FailureIsLocal ==
    Started =>
      /\ ~panicked
      /\ exitStatus \in {-1, 0}
      /\ \A r \in Records : outs[r].err # Nil => outs[r].err.addr = r
      /\ \A w \in Workers : wpc[w] \in InTest => Count(received, OutOf(w)) = 0
      /\ mainPc = "done" =>
           /\ exitStatus = 0
           /\ \A r \in Records : Count(received, r) = 1

C4_Witness ==
    /\ mainPc = "done"
    /\ exitStatus = 0
    /\ flags.numConns = 1
    /\ received = <<1, 2>>
    /\ outs[1].err.kind = "error building dialer"
    /\ outs[2].err = Nil

\* a check goroutine whose check ended in the timeout branch: it is still
\* there and no worker's select waits for it
TimedOut(g) == ~\E w \in Workers : wpc[w] = "select" /\ Waited(w, g)
\* no later check of g's record has been started
LatestCheck(g) ==
    \/ g.n = flags.checks
    \/ \E w \in Workers : wpc[w] = "loop" /\ OutOf(w) = g.out /\ chk[w] = g.n
TimedOutChecks(r) == {g \in gos : g.out = r /\ TimedOut(g)}

C6_Original ==
    \A w \in Workers : wpc[w] = "select" => TimedOutChecks(OutOf(w)) = {}

\* C6, amended: the timeout bounds each single check, so a worker waits
\* through at most *checks timeout periods for one record, one per check,
\* and it starts the remaining checks of a record after a check timed out.
C6_TimeoutPerCheck ==
    /\ \A r \in Records :
         /\ Cardinality(TimedOutChecks(r)) <= flags.checks
         /\ \A g, h \in TimedOutChecks(r) : g.n = h.n => g = h
    /\ \A g \in gos : g.n \in 1..flags.checks
    /\ \A w \in Workers :
         /\ chk[w] <= flags.checks
         /\ wpc[w] \in {"loop", "select"} => chk[w] < flags.checks

C6_Witness ==
    \E w \in Workers :
      /\ wpc[w] = "publish"
      /\ Cardinality(TimedOutChecks(OutOf(w))) = 2

\* the precedence as the claim states it
Precedence(rec) ==
    IF rec.KCPSettings = "set" THEN "kcp"
    ELSE IF rec.PluggableTransport # "" THEN rec.PluggableTransport
    ELSE IF rec.Cert # "" THEN "https"
    ELSE "http"

\* C7: the protocol testFallbackServer hands to the dialer is kcp for
\* non-empty KCPSettings, else the pluggable transport's name if there is
\* one, else https with a certificate, else http.
C7_ProtocolPrecedence ==
    \A w \in Workers :
      wpc[w] = "dialer" => proto[w] = Precedence(fallbacks[OutOf(w)])

C7_Witness ==
    \E w \in Workers :
      /\ wpc[w] = "dialer"
      /\ fallbacks[OutOf(w)].KCPSettings = "empty"
      /\ fallbacks[OutOf(w)].PluggableTransport = "foo"
      /\ fallbacks[OutOf(w)].Cert # ""
      /\ proto[w] = "foo"

PingOK(res) == res.status = StatusOK /\ res.len = PingSize
Answered(g) == g.pc = "send" /\ g.res.do /\ g.res.read
Gone(g) == ~\E h \in gos' : h.w = g.w /\ h.out = g.out /\ h.n = g.n

\* C8: a ping check whose response and body arrived has a nil result exactly
\* for status 200 with a 1024-byte body, and when the worker receives the
\* result the outcome's error is set exactly when the result is not nil.
C8_PingIff ==
    /\ [](\A g \in gos : ~flags.verify /\ Answered(g) =>
            (g.err = Nil <=> PingOK(g.res)))
    /\ [][\A g \in gos :
            ~flags.verify /\ Answered(g) /\ Gone(g) =>
              IF PingOK(g.res)
                THEN outs'[g.out].err = outs[g.out].err
                ELSE /\ outs'[g.out].err # Nil
                     /\ outs'[g.out].err.kind \in {"bad status code", "wrong body size"}]_vars

C8_Witness ==
    \E w \in Workers :
      /\ ~flags.verify
      /\ wpc[w] = "publish"
      /\ flags.checks = 1
      /\ outs[OutOf(w)].err = Err("wrong body size", OutOf(w))

\* C9 as claimed: an upstream check whose response lacks the marker header
\* has an error as its result.
C9_Original ==
    \A g \in gos : flags.verify /\ Answered(g) /\ ~g.res.marker => g.err # Nil

\* C9, amended: verifyUpstream looks at no response header: an upstream
\* check whose response and body arrived has a nil result exactly for
\* status 200 with a body that is a gzip stream of YAML, with or without
\* the marker header.
C9_UpstreamIff ==
    \A g \in gos :
      flags.verify /\ Answered(g) =>
        (g.err = Nil <=> (g.res.status = StatusOK /\ g.res.body = "gzyaml"))

C9_Witness ==
    \E g \in gos : flags.verify /\ Answered(g) /\ ~g.res.marker /\ g.err = Nil

\* C10 as claimed: the record a worker handed to testFallbackServer has all
\* the field values of the input record.
C10_Original ==
    \A w \in Workers : wpc[w] \in InTest => fb[w] = fallbacks[OutOf(w)]

\* C10, amended: testFallbackServer sets MaxPreconnect of the record it was
\* handed (the worker's own copy) to 1 and leaves every other field as it
\* was in the input record.
C10_OnlyMaxPreconnect ==
    \A w \in Workers :
      /\ wpc[w] \in InTest =>
           [fb[w] EXCEPT !.MaxPreconnect = fallbacks[OutOf(w)].MaxPreconnect]
             = fallbacks[OutOf(w)]
      /\ wpc[w] \in InTest \ {"test"} => fb[w].MaxPreconnect = PreconnectForTest

C10_Witness ==
    \E w \in Workers :
      /\ wpc[w] = "publish"
      /\ fallbacks[OutOf(w)].MaxPreconnect = 0
      /\ fb[w].MaxPreconnect = PreconnectForTest
      /\ fallbacks[OutOf(w)].Cert # ""

\* the check goroutines whose request/response exchange (c.Do and the
\* reading of the body) has been started and has not finished
InFlight == {g \in gos : g.pc = "do"}

\* C11 as claimed: at any moment at most *numConns request/response
\* exchanges are in flight, timeouts included.
C11_Original == Cardinality(InFlight) <= flags.numConns

\* the positions of the status lines on stdout, and the status line main
\* prints for an outcome
StatusLines == {p \in 1..Len(stdout) : stdout[p].prefix # "[output]"}
Rank(p) == Cardinality({q \in StatusLines : q <= p})
StatusLine(o) ==
    IF o.err # Nil
      THEN [prefix |-> "[failed fallback check]", addr |-> 0, err |-> o.err, msg |-> ""]
      ELSE [prefix |-> "Fallback OK", addr |-> o.addr, err |-> Nil, msg |-> ""]
Diagnostic(msg) == [prefix |-> "[output]", addr |-> 0, err |-> Nil, msg |-> msg]

\* C12: stdout has one status line per received outcome, in arrival order,
\* the failure line exactly for an outcome with an error and the OK line
\* otherwise; nothing is printed before the first status line and without
\* -verbose nothing but status lines; and main prints only when it receives
\* an outcome: that outcome's status line and then, with -verbose, its
\* diagnostics, with no line of another outcome in between.
C12_ArrivalOrder ==
    /\ [](/\ Cardinality(StatusLines) = Len(received)
          /\ \A p \in StatusLines :
               stdout[p] = StatusLine(outs[received[Rank(p)]])
          /\ stdout # <<>> => 1 \in StatusLines
          /\ ~flags.verbose => StatusLines = 1..Len(stdout))
    /\ [][/\ received' = received => stdout' = stdout
          /\ \A r \in Records :
               received' = Append(received, r) =>
                 /\ Len(stdout') > Len(stdout)
                 /\ SubSeq(stdout', 1, Len(stdout)) = stdout
                 /\ stdout'[Len(stdout) + 1] = StatusLine(outs[r])
                 /\ \A p \in (Len(stdout) + 2)..Len(stdout') :
                      /\ flags.verbose
                      /\ p - Len(stdout) - 1 \in 1..Len(outs[r].info)
                      /\ stdout'[p] = Diagnostic(outs[r].info[p - Len(stdout) - 1])
                 /\ flags.verbose =>
                      Len(stdout') = Len(stdout) + 1 + Len(outs[r].info)]_vars

C12_Witness ==
    /\ flags.verbose
    /\ Len(received) = 2
    /\ Len(stdout) = 5
    /\ stdout[1].prefix = "[failed fallback check]"
    /\ stdout[2].prefix = "[output]"
    /\ stdout[3].prefix = "Fallback OK"
    /\ stdout[4].prefix = "[output]"
    /\ stdout[5].prefix = "[output]"

\* C13: a fatal error at boot (global config with the trusted CAs not
\* available, no file name, unreadable file, malformed JSON) ends the
\* process with status 1 or 2 and nothing else has happened or happens: no
\* worker is spawned, no record is queued or dispatched, no outcome exists
\* and nothing is printed; and with such an error the pool is never started.
C13_FatalBeforePool ==
    /\ mainPc = "fatal" <=> exitStatus \in {1, 2}
    /\ bootError(env) # "" => mainPc \in {"boot", "fatal"}
    /\ mainPc = "fatal" =>
         /\ bootError(env) # ""
         /\ exitStatus # 0
         /\ ~ENABLED Next
         /\ dispPc = "idle" /\ spawned = 0 /\ wg = 0
         /\ \A w \in Workers : wpc[w] = "none" /\ fb[w] = NoRec
         /\ fallbacks = <<>> /\ fbChan = <<>>
         /\ outs = <<>> /\ gos = {}
         /\ received = <<>> /\ stdout = <<>> /\ testedCount = 0

C13_Witness ==
    /\ mainPc = "fatal"
    /\ exitStatus = 1
    /\ ~env.fronted
    /\ Len(Flat(env.groups)) = MaxRecords

InfoWriters(r) ==
    {g \in gos : flags.verbose /\ g.out = r /\ g.pc \in {"start", "do"}}

\* C15 as claimed: a check goroutine writes to an outcome only while its
\* worker is blocked in the select waiting for it, so that nothing else can
\* read or write the outcome meanwhile, and no step changes an outcome that
\* has been published on the results channel.
C15_Original ==
    /\ [](\A r \in Records : \A g \in InfoWriters(r) : ~TimedOut(g))
    /\ [][\A r \in Records :
            Count(received, r) > 0 => outs'[r] = outs[r]]_vars

\* C16 as claimed: while the request/response exchange of a check of a
\* record is in progress, no later check of that record has been started.
C16_Original ==
    \A g \in InFlight : \A h \in gos : h.out = g.out => h.n <= g.n

\* C17 as claimed: the request of every check goroutine that has set its
\* headers carries the auth token of the record the check probes.
C17_Original ==
    \A g \in gos :
      g.pc \in {"do", "send"} => g.token = fallbacks[g.out].AuthToken

\* C18 as claimed: once the pool has completed (main's range loop has
\* ended) no check goroutine is left, running or blocked.
C18_Original == mainPc = "done" => gos = {}

\* C19: an outcome has diagnostics only with -verbose, and whether an
\* outcome carries an error is a function of the results of its checks
\* alone, in which -verbose does not occur: when the dialer was built, the
\* error is present exactly when one of the checks run so far failed or
\* timed out (without a dialer no check is run).
C19_VerboseOnlyDiagnostics ==
    /\ \A r \in Records : outs[r].info # <<>> => flags.verbose
    /\ \A w \in Workers :
         wpc[w] \in {"loop", "select", "publish"} =>
           /\ Len(hist[w]) = chk[w]
           /\ IF outs[OutOf(w)].err.kind = "error building dialer"
                THEN wpc[w] = "publish" /\ hist[w] = <<>>
                ELSE outs[OutOf(w)].err # Nil <=>
                       \E k \in 1..Len(hist[w]) : hist[w][k] # "ok"

C19_Witness ==
    \E w \in Workers :
      /\ flags.verbose
      /\ wpc[w] = "publish"
      /\ hist[w] = <<"failed", "ok">>
      /\ outs[OutOf(w)].err # Nil
      /\ Len(outs[OutOf(w)].info) = 2

FailureKinds ==
    {"error building dialer", "ping failed", "error reading response body",
     "bad status code", "wrong body size", "can't open gzip reader",
     "can't read config body", "can't parse config response", "check timed out"}

\* C20: the error of an outcome, whatever its kind, names the address of
\* the outcome's own record; so does the result a check goroutine hands to
\* the worker that waits for it; and every failure line printed for a
\* received outcome carries that outcome's error, with its record's address.
C20_ErrorNamesRecord ==
    /\ \A r \in Records :
         outs[r].err # Nil =>
           /\ outs[r].err.kind \in FailureKinds
           /\ outs[r].err.addr = fallbacks[r].Addr
           /\ outs[r].err.addr = outs[r].addr
    /\ \A g \in gos :
         g.err # Nil => g.err.addr = fallbacks[g.out].Addr
    /\ \A p \in StatusLines :
         stdout[p].prefix = "[failed fallback check]" =>
           stdout[p].err.addr = fallbacks[received[Rank(p)]].Addr

C20_Witness ==
    /\ flags.numConns = 1
    /\ received = <<1, 2>>
    /\ Len(stdout) = 2
    /\ stdout[1].err = Err("check timed out", 1)
    /\ stdout[2].err = Err("ping failed", 2)
    /\ \E g \in gos : g.out = 1 /\ g.pc = "send"

\* the number of newline characters in a string
RECURSIVE Newlines(_)
Newlines(s) ==
    IF Len(s) = 0 THEN 0
    ELSE (IF SubSeq(s, 1, 1) = "\n" THEN 1 ELSE 0) + Newlines(SubSeq(s, 2, Len(s)))

\* C21 as claimed: in the list loadFallbacks returned, no certificate holds
\* a newline character: each one has become backslash, n.
C21_Original ==
    Started =>
      \A i \in 1..Len(loadFallbacks(env)) :
        \A j \in 1..Len(loadFallbacks(env)[i]) :
          LET loaded == loadFallbacks(env)[i][j].Cert
              decoded == jsonString(env.groups[i][j].Cert)
          IN  /\ Newlines(loaded) = 0
              /\ loaded = Replace(decoded, "\n", "\\n")

\* C22: with at least one check per record and a dialer, all the checks of
\* a record are run whatever the earlier ones ended in, and the outcome
\* handed to main has no error exactly when every one of them ended ok; a
\* worker leaving the select never turns an error into no error.
C22_AllChecksCount ==
    /\ [](\A w \in Workers :
            (/\ flags.checks >= 1
             /\ wpc[w] = "publish"
             /\ outs[OutOf(w)].err.kind # "error building dialer") =>
              /\ Len(hist[w]) = flags.checks
              /\ outs[OutOf(w)].err = Nil <=>
                   \A k \in 1..flags.checks : hist[w][k] = "ok")
    /\ [][\A w \in Workers :
            (/\ wpc[w] = "select"
             /\ wpc'[w] # "select"
             /\ outs[OutOf(w)].err # Nil) =>
              /\ outs'[OutOf(w)].err # Nil
              /\ Len(hist'[w]) < flags.checks => wpc'[w] = "loop"]_vars

C22_Witness ==
    \E w \in Workers :
      /\ ~flags.verbose
      /\ wpc[w] = "publish"
      /\ hist[w] = <<"timeout", "ok">>
      /\ outs[OutOf(w)].err = timeoutErr(OutOf(w))

====
